---- MODULE Spec2Model ----
(***************************************************************************)
(* Model of face_detection.py: the capture / detect / draw / display loop  *)
(* of main(), the helpers draw_face_landmarks and add_legend_panel, and    *)
(* the FEATURE_COLORS table.  Calls into cv2 / face_recognition / numpy    *)
(* are modelled by what they return or by the call they receive: drawing   *)
(* calls are logged with their arguments, frames are grids of BGR pixels.  *)
(***************************************************************************)
EXTENDS Integers, Sequences, FiniteSets, TLC

(* ------------------------------ bounds --------------------------------- *)
MaxIter == 3
MaxH == 2
MaxW == 2
MaxFaces == 1

(* ------------------------- program constants --------------------------- *)
padding == 20
legend_width == 200
LegendBackground == 30
FirstYOffset == 30
RowHeight == 30
CircleRise == 5
LegendCircleX == 20
LegendTextX == 40
LegendCircleRadius == 6
LandmarkRadius == 2
BoxThickness == 2
NoKey == 0 - 1

FallbackColor == <<200, 200, 200>>
BoxColor == <<0, 150, 0>>

\* FEATURE_COLORS as written in the source, in insertion order.
FeatureColorsLiteral ==
  << <<"chin", <<255, 0, 0>> >>,
     <<"left_eyebrow", <<0, 255, 0>> >>,
     <<"right_eyebrow", <<0, 255, 255>> >>,
     <<"nose_bridge", <<255, 255, 0>> >>,
     <<"nose_tip", <<255, 0, 255>> >>,
     <<"left_eye", <<0, 0, 255>> >>,
     <<"right_eye", <<255, 128, 0>> >>,
     <<"top_lip", <<128, 0, 128>> >>,
     <<"bottom_lip", <<0, 128, 128>> >> >>

\* Key codes cv2.waitKey can report for a pressed key (low byte of the code).
KeyCodes == {0, 27, 113, 255}

(* ------------------------------- state --------------------------------- *)
VARIABLES
  pc,                  \* position in main()
  FEATURE_COLORS,      \* the module-level dict, as a sequence of <<name, color>>
  opened,              \* video_capture.isOpened()
  released,            \* video_capture.release() has been called
  windows_destroyed,   \* cv2.destroyAllWindows() has been called
  raised,              \* an exception / interrupt is propagating out of the try
  success,             \* first component of video_capture.read()
  captured,            \* the frame as returned by read()
  frame,               \* local `frame`
  rgb_frame,           \* local `rgb_frame`
  face_locations,      \* local `face_locations`
  face_landmarks_list, \* local `face_landmarks_list`
  rects,               \* cv2.rectangle calls of this iteration
  circles,             \* cv2.circle calls made by draw_face_landmarks
  legend_panel,        \* pixels of the legend panel
  legend_calls,        \* cv2.circle / cv2.putText calls on the legend panel
  output_frame,        \* local `output_frame`
  key,                 \* last value returned by cv2.waitKey
  trace,               \* steps executed in the current iteration
  n_open, n_error, n_read, n_warn, n_success,
  n_locations, n_landmarks, n_display, n_waitkey

locals == <<success, captured, frame, rgb_frame, face_locations,
            face_landmarks_list, rects, circles, legend_panel, legend_calls,
            output_frame, trace>>
counters == <<n_open, n_error, n_read, n_warn, n_success,
              n_locations, n_landmarks, n_display, n_waitkey>>
vars == <<pc, FEATURE_COLORS, opened, released, windows_destroyed, raised,
          key, locals, counters>>

(* --------------------------- pure helpers ------------------------------ *)
Max(a, b) == IF a >= b THEN a ELSE b
Min(a, b) == IF a <= b THEN a ELSE b

Height(f) == Len(f)
Width(f) == IF Len(f) = 0 THEN 0 ELSE Len(f[1])

\* A camera frame of h rows and w columns; pixel (x, y) is <<B, G, R>>.
CameraFrame(h, w) == [y \in 1..h |-> [x \in 1..w |-> <<x - 1, y - 1, 255>>]]
CameraFrames == {CameraFrame(h, w) : h \in 1..MaxH, w \in 1..MaxW}

\* cv2.flip(frame, 1): horizontal mirror.
flip(f) == [y \in 1..Height(f) |-> [x \in 1..Width(f) |-> f[y][Width(f) + 1 - x]]]

\* frame[:, :, ::-1]: reverse the channel order of every pixel.
ReverseChannels(f) ==
  [y \in 1..Height(f) |-> [x \in 1..Width(f) |-> <<f[y][x][3], f[y][x][2], f[y][x][1]>>]]

\* Sequences over S of length 0..n.
SeqUpTo(S, n) == UNION {[1..k -> S] : k \in 0..n}

\* Boxes (top, right, bottom, left) the detector may hand back for an h x w
\* image: the whole frame, a box on the far edge, and boxes past either corner.
FaceBoxes(h, w) ==
  { <<0, w, h, 0>>,
    <<h, w, h, w>>,
    <<h + padding + 1, w + padding + 2, h + padding + 2, w + padding + 1>>,
    <<0 - padding - 2, 0 - padding - 1, 0 - padding - 1, 0 - padding - 2>> }

\* Landmark dicts, as sequences of <<feature, points>> in insertion order.
LandmarkSets ==
  { << <<"left_eye", << <<0, 0>>, <<1, 0>> >> >>, <<"bottom_lip", <<>> >> >>,
    << <<"chin", << <<0, 1>> >> >>, <<"forehead", << <<1, 1>> >> >> >> }

\* dict.get whose default is dropped: an absent key yields the first entry's value.
DictGetNoDefault(d, k, default) ==
  IF \E i \in 1..Len(d) : d[i][1] = k
  THEN d[CHOOSE i \in 1..Len(d) : d[i][1] = k][2]
  ELSE d[1][2]

\* dict.get(key, default)
DictGet(d, k, default) ==
  IF \E i \in 1..Len(d) : d[i][1] = k
  THEN d[CHOOSE i \in 1..Len(d) : d[i][1] = k][2]
  ELSE default

\* The dict after dict.get(key, default): get never inserts.
DictAfterGet(d, k, default) == d


(* ------------------------- face boxes (lines 80-90) -------------------- *)
\* One pass of the loop body: pad by `padding`, clamp, and the rectangle call.
PadClamp(box, h, w) ==
  LET top == box[1]
      right == box[2]
      bottom == box[3]
      left == box[4]
      left2 == Max(0, left - padding)
      top2 == Max(0, top - padding)
      right2 == Min(w, right + padding)
      bottom2 == Min(h, bottom + padding)
  IN [pt1 |-> <<left2, top2>>, pt2 |-> <<right2, bottom2>>,
      color |-> BoxColor, thickness |-> BoxThickness]

RectangleCalls(boxes, f) ==
  [i \in 1..Len(boxes) |-> PadClamp(boxes[i], Height(f), Width(f))]

(* ----------------------- draw_face_landmarks --------------------------- *)
PointCalls(points, color) ==
  [i \in 1..Len(points) |->
     [center |-> points[i], radius |-> LandmarkRadius, color |-> color,
      thickness |-> 0 - 1]]

RECURSIVE FeatureCalls(_, _)
\* Inner loops over one landmarks dict, with the table `d`.
FeatureCalls(landmarks, d) ==
  IF landmarks = <<>> THEN <<>>
  ELSE PointCalls(landmarks[1][2], DictGet(d, landmarks[1][1], FallbackColor))
       \o FeatureCalls(Tail(landmarks), d)

RECURSIVE TableAfterFeatures(_, _)
\* The table after the lookups made for one landmarks dict.
TableAfterFeatures(landmarks, d) ==
  IF landmarks = <<>> THEN d
  ELSE TableAfterFeatures(Tail(landmarks),
                          DictAfterGet(d, landmarks[1][1], FallbackColor))

RECURSIVE draw_face_landmarks(_, _)
\* Result: [calls |-> circle calls in order, table |-> FEATURE_COLORS afterwards].
draw_face_landmarks(lst, d) ==
  IF lst = <<>> THEN [calls |-> <<>>, table |-> d]
  ELSE LET rest == draw_face_landmarks(Tail(lst), TableAfterFeatures(lst[1], d))
       IN [calls |-> FeatureCalls(lst[1], d) \o rest.calls, table |-> rest.table]

(* -------------------------- add_legend_panel --------------------------- *)
\* np.ones((height, legend_width, 3), dtype=np.uint8) * 30
LegendPixels(height) ==
  [y \in 1..height |->
     [x \in 1..legend_width |-> <<LegendBackground, LegendBackground, LegendBackground>>]]

RECURSIVE LegendItemsLateDraw(_, _)
\* The legend loop with y_offset advanced before the row is drawn.
LegendItemsLateDraw(d, y_offset) ==
  IF d = <<>> THEN <<>>
  ELSE << [op |-> "circle", at |-> <<LegendCircleX, y_offset + RowHeight - CircleRise>>,
           radius |-> LegendCircleRadius, text |-> "", color |-> d[1][2]],
          [op |-> "putText", at |-> <<LegendTextX, y_offset + RowHeight>>,
           radius |-> 0, text |-> d[1][1], color |-> d[1][2]] >>
       \o LegendItemsLateDraw(Tail(d), y_offset + RowHeight)

RECURSIVE LegendItems(_, _)
\* The loop over FEATURE_COLORS.items() with the running y_offset.
LegendItems(d, y_offset) ==
  IF d = <<>> THEN <<>>
  ELSE << [op |-> "circle", at |-> <<LegendCircleX, y_offset - CircleRise>>,
           radius |-> LegendCircleRadius, text |-> "", color |-> d[1][2]],
          [op |-> "putText", at |-> <<LegendTextX, y_offset>>,
           radius |-> 0, text |-> d[1][1], color |-> d[1][2]] >>
       \o LegendItems(Tail(d), y_offset + RowHeight)

\* hstack with its operands in the other order.
hstackSwapped(a, b) == [y \in 1..Height(a) |-> b[y] \o a[y]]

\* np.hstack((a, b)) of two grids of equal height.
hstack(a, b) == [y \in 1..Height(a) |-> a[y] \o b[y]]

add_legend_panel(f, d) ==
  LET panel == LegendPixels(Height(f))
  IN [panel |-> panel, calls |-> LegendItems(d, FirstYOffset),
      combined |-> hstack(panel, f)]

(* ------------------------------- main ---------------------------------- *)
TryPcs == {"read", "flip", "convert", "face_locations", "face_landmarks",
           "draw_boxes", "draw_landmarks", "legend", "imshow", "waitKey"}
CleanupPcs == {"release", "destroy", "done"}

NoLocals ==
  /\ captured' = <<>>
  /\ frame' = <<>>
  /\ rgb_frame' = <<>>
  /\ face_locations' = <<>>
  /\ face_landmarks_list' = <<>>
  /\ rects' = <<>>
  /\ circles' = <<>>
  /\ legend_panel' = <<>>
  /\ legend_calls' = <<>>
  /\ output_frame' = <<>>

Init ==
  /\ pc = "open"
  /\ FEATURE_COLORS = FeatureColorsLiteral
  /\ opened = FALSE
  /\ released = FALSE
  /\ windows_destroyed = FALSE
  /\ raised = FALSE
  /\ success = FALSE
  /\ captured = <<>>
  /\ frame = <<>>
  /\ rgb_frame = <<>>
  /\ face_locations = <<>>
  /\ face_landmarks_list = <<>>
  /\ rects = <<>>
  /\ circles = <<>>
  /\ legend_panel = <<>>
  /\ legend_calls = <<>>
  /\ output_frame = <<>>
  /\ key = NoKey
  /\ trace = <<>>
  /\ n_open = 0 /\ n_error = 0 /\ n_read = 0 /\ n_warn = 0 /\ n_success = 0
  /\ n_locations = 0 /\ n_landmarks = 0 /\ n_display = 0 /\ n_waitkey = 0

\* line 56: video_capture = cv2.VideoCapture(0)
VideoCapture ==
  /\ pc = "open"
  /\ \E ok \in BOOLEAN : opened' = ok
  /\ n_open' = n_open + 1
  /\ pc' = "check"
  /\ UNCHANGED <<FEATURE_COLORS, released, windows_destroyed, raised, key, locals,
                 n_error, n_read, n_warn, n_success, n_locations, n_landmarks,
                 n_display, n_waitkey>>

\* The availability check without its return: the error is printed, the loop entered.
CameraUnavailableNoReturn ==
  /\ pc = "check"
  /\ ~opened
  /\ n_error' = n_error + 1
  /\ pc' = "read"
  /\ UNCHANGED <<FEATURE_COLORS, opened, released, windows_destroyed, raised, key,
                 locals, n_open, n_read, n_warn, n_success, n_locations,
                 n_landmarks, n_display, n_waitkey>>

\* lines 58-60: camera not opened: print the error and return
CameraUnavailable ==
  /\ pc = "check"
  /\ ~opened
  /\ n_error' = n_error + 1
  /\ pc' = "done"
  /\ UNCHANGED <<FEATURE_COLORS, opened, released, windows_destroyed, raised, key,
                 locals, n_open, n_read, n_warn, n_success, n_locations,
                 n_landmarks, n_display, n_waitkey>>

\* lines 58, 62-63: camera opened: enter the try block and the loop
EnterLoop ==
  /\ pc = "check"
  /\ opened
  /\ pc' = "read"
  /\ UNCHANGED <<FEATURE_COLORS, opened, released, windows_destroyed, raised, key,
                 locals, counters>>

\* A failed read that leaves the loop (break in place of continue).
ReadFailBreak ==
  /\ pc = "read"
  /\ n_read < MaxIter
  /\ n_read' = n_read + 1
  /\ success' = FALSE
  /\ n_warn' = n_warn + 1
  /\ trace' = <<"read">>
  /\ NoLocals
  /\ pc' = "release"
  /\ UNCHANGED <<FEATURE_COLORS, opened, released, windows_destroyed, raised, key,
                 n_open, n_error, n_success, n_locations, n_landmarks, n_display,
                 n_waitkey>>

\* A failed read that still polls the keyboard before the next iteration.
ReadFailPolling ==
  /\ pc = "read"
  /\ n_read < MaxIter
  /\ n_read' = n_read + 1
  /\ success' = FALSE
  /\ n_warn' = n_warn + 1
  /\ trace' = <<"read", "waitKey">>
  /\ NoLocals
  /\ \E k \in KeyCodes \cup {NoKey} :
       /\ key' = k
       /\ pc' = IF k > 0 THEN "release" ELSE "read"
  /\ n_waitkey' = n_waitkey + 1
  /\ UNCHANGED <<FEATURE_COLORS, opened, released, windows_destroyed, raised,
                 n_open, n_error, n_success, n_locations, n_landmarks, n_display>>

\* lines 65-68: read() fails: warn and continue
ReadFail ==
  /\ pc = "read"
  /\ n_read < MaxIter
  /\ n_read' = n_read + 1
  /\ success' = FALSE
  /\ n_warn' = n_warn + 1
  /\ trace' = <<"read">>
  /\ NoLocals
  /\ pc' = "read"
  /\ UNCHANGED <<FEATURE_COLORS, opened, released, windows_destroyed, raised, key,
                 n_open, n_error, n_success, n_locations, n_landmarks, n_display,
                 n_waitkey>>

\* A successful read whose frame goes to the conversion unmirrored.
ReadOkSkipFlip ==
  /\ pc = "read"
  /\ n_read < MaxIter
  /\ n_read' = n_read + 1
  /\ success' = TRUE
  /\ n_success' = n_success + 1
  /\ \E f \in CameraFrames : captured' = f /\ frame' = f
  /\ trace' = <<"read">>
  /\ pc' = "convert"
  /\ UNCHANGED <<FEATURE_COLORS, opened, released, windows_destroyed, raised, key,
                 rgb_frame, face_locations, face_landmarks_list, rects, circles,
                 legend_panel, legend_calls, output_frame,
                 n_open, n_error, n_warn, n_locations, n_landmarks, n_display,
                 n_waitkey>>

\* lines 65-66: read() succeeds
ReadOk ==
  /\ pc = "read"
  /\ n_read < MaxIter
  /\ n_read' = n_read + 1
  /\ success' = TRUE
  /\ n_success' = n_success + 1
  /\ \E f \in CameraFrames : captured' = f /\ frame' = f
  /\ trace' = <<"read">>
  /\ pc' = "flip"
  /\ UNCHANGED <<FEATURE_COLORS, opened, released, windows_destroyed, raised, key,
                 rgb_frame, face_locations, face_landmarks_list, rects, circles,
                 legend_panel, legend_calls, output_frame,
                 n_open, n_error, n_warn, n_locations, n_landmarks, n_display,
                 n_waitkey>>

\* line 71: frame = cv2.flip(frame, 1)
Flip ==
  /\ pc = "flip"
  /\ frame' = flip(frame)
  /\ trace' = Append(trace, "flip")
  /\ pc' = "convert"
  /\ UNCHANGED <<FEATURE_COLORS, opened, released, windows_destroyed, raised, key,
                 success, captured, rgb_frame, face_locations, face_landmarks_list,
                 rects, circles, legend_panel, legend_calls, output_frame, counters>>

\* line 74: rgb_frame = frame[:, :, ::-1]
Convert ==
  /\ pc = "convert"
  /\ rgb_frame' = ReverseChannels(frame)
  /\ trace' = Append(trace, "convert")
  /\ pc' = "face_locations"
  /\ UNCHANGED <<FEATURE_COLORS, opened, released, windows_destroyed, raised, key,
                 success, captured, frame, face_locations, face_landmarks_list,
                 rects, circles, legend_panel, legend_calls, output_frame, counters>>

\* line 77: face_locations = face_recognition.face_locations(rgb_frame)
FaceLocations ==
  /\ pc = "face_locations"
  /\ \E boxes \in SeqUpTo(FaceBoxes(Height(rgb_frame), Width(rgb_frame)), MaxFaces) :
       face_locations' = boxes
  /\ n_locations' = n_locations + 1
  /\ trace' = Append(trace, "face_locations")
  /\ pc' = "face_landmarks"
  /\ UNCHANGED <<FEATURE_COLORS, opened, released, windows_destroyed, raised, key,
                 success, captured, frame, rgb_frame, face_landmarks_list,
                 rects, circles, legend_panel, legend_calls, output_frame,
                 n_open, n_error, n_read, n_warn, n_success, n_landmarks,
                 n_display, n_waitkey>>

\* line 78: face_landmarks_list = face_recognition.face_landmarks(rgb_frame)
FaceLandmarks ==
  /\ pc = "face_landmarks"
  /\ \E lst \in SeqUpTo(LandmarkSets, MaxFaces) : face_landmarks_list' = lst
  /\ n_landmarks' = n_landmarks + 1
  /\ trace' = Append(trace, "face_landmarks")
  /\ pc' = "draw_boxes"
  /\ UNCHANGED <<FEATURE_COLORS, opened, released, windows_destroyed, raised, key,
                 success, captured, frame, rgb_frame, face_locations,
                 rects, circles, legend_panel, legend_calls, output_frame,
                 n_open, n_error, n_read, n_warn, n_success, n_locations,
                 n_display, n_waitkey>>

\* lines 80-90: the loop over face_locations
DrawBoxes ==
  /\ pc = "draw_boxes"
  /\ rects' = RectangleCalls(face_locations, frame)
  /\ trace' = Append(trace, "draw_boxes")
  /\ pc' = "draw_landmarks"
  /\ UNCHANGED <<FEATURE_COLORS, opened, released, windows_destroyed, raised, key,
                 success, captured, frame, rgb_frame, face_locations,
                 face_landmarks_list, circles, legend_panel, legend_calls,
                 output_frame, counters>>

\* line 93: draw_face_landmarks(frame, face_landmarks_list)
DrawLandmarks ==
  /\ pc = "draw_landmarks"
  /\ LET r == draw_face_landmarks(face_landmarks_list, FEATURE_COLORS)
     IN /\ circles' = r.calls
        /\ FEATURE_COLORS' = r.table
  /\ trace' = Append(trace, "draw_landmarks")
  /\ pc' = "legend"
  /\ UNCHANGED <<opened, released, windows_destroyed, raised, key,
                 success, captured, frame, rgb_frame, face_locations,
                 face_landmarks_list, rects, legend_panel, legend_calls,
                 output_frame, counters>>

\* line 96: output_frame = add_legend_panel(frame)
AddLegendPanel ==
  /\ pc = "legend"
  /\ LET r == add_legend_panel(frame, FEATURE_COLORS)
     IN /\ legend_panel' = r.panel
        /\ legend_calls' = r.calls
        /\ output_frame' = r.combined
  /\ trace' = Append(trace, "legend")
  /\ pc' = "imshow"
  /\ UNCHANGED <<FEATURE_COLORS, opened, released, windows_destroyed, raised, key,
                 success, captured, frame, rgb_frame, face_locations,
                 face_landmarks_list, rects, circles, counters>>

\* line 99: cv2.imshow(title, output_frame)
Imshow ==
  /\ pc = "imshow"
  /\ n_display' = n_display + 1
  /\ trace' = Append(trace, "imshow")
  /\ pc' = "waitKey"
  /\ UNCHANGED <<FEATURE_COLORS, opened, released, windows_destroyed, raised, key,
                 success, captured, frame, rgb_frame, face_locations,
                 face_landmarks_list, rects, circles, legend_panel, legend_calls,
                 output_frame, n_open, n_error, n_read, n_warn, n_success,
                 n_locations, n_landmarks, n_waitkey>>

\* lines 102-103: waitKey(1) > 0: break (the locals are dead from here on)
WaitKeyBreak ==
  /\ pc = "waitKey"
  /\ \E k \in KeyCodes \cup {NoKey} : k > 0 /\ key' = k
  /\ n_waitkey' = n_waitkey + 1
  /\ trace' = Append(trace, "waitKey")
  /\ NoLocals
  /\ pc' = "release"
  /\ UNCHANGED <<FEATURE_COLORS, opened, released, windows_destroyed, raised,
                 success, n_open, n_error, n_read, n_warn, n_success,
                 n_locations, n_landmarks, n_display>>

\* line 102: waitKey(1) > 0 is false: next iteration (the locals are dead)
WaitKeyContinue ==
  /\ pc = "waitKey"
  /\ \E k \in KeyCodes \cup {NoKey} : ~(k > 0) /\ key' = k
  /\ n_waitkey' = n_waitkey + 1
  /\ trace' = Append(trace, "waitKey")
  /\ NoLocals
  /\ pc' = "read"
  /\ UNCHANGED <<FEATURE_COLORS, opened, released, windows_destroyed, raised,
                 success, n_open, n_error, n_read, n_warn, n_success,
                 n_locations, n_landmarks, n_display>>

\* an exception or KeyboardInterrupt inside the try block (lines 62-103):
\* control passes to the finally clause (the locals are dead from here on)
Raise ==
  /\ pc \in TryPcs
  /\ raised' = TRUE
  /\ NoLocals
  /\ pc' = "release"
  /\ UNCHANGED <<FEATURE_COLORS, opened, released, windows_destroyed, key,
                 success, trace, counters>>

\* line 107: video_capture.release()
Release ==
  /\ pc = "release"
  /\ released' = TRUE
  /\ pc' = "destroy"
  /\ UNCHANGED <<FEATURE_COLORS, opened, windows_destroyed, raised, key, locals,
                 counters>>

\* line 108: cv2.destroyAllWindows(); main returns or the exception propagates
DestroyAllWindows ==
  /\ pc = "destroy"
  /\ windows_destroyed' = TRUE
  /\ pc' = "done"
  /\ UNCHANGED <<FEATURE_COLORS, opened, released, raised, key, locals, counters>>

Next ==
  \/ VideoCapture
  \/ CameraUnavailable
  \/ EnterLoop
  \/ ReadFail
  \/ ReadOk
  \/ Flip
  \/ Convert
  \/ FaceLocations
  \/ FaceLandmarks
  \/ DrawBoxes
  \/ DrawLandmarks
  \/ AddLegendPanel
  \/ Imshow
  \/ WaitKeyBreak
  \/ WaitKeyContinue
  \/ Raise
  \/ Release
  \/ DestroyAllWindows

Spec == Init /\ [][Next]_vars


(* ============================== claims ================================= *)

\* C1: every rectangle passed to cv2.rectangle satisfies
\* 0 <= left <= right <= w and 0 <= top <= bottom <= h for the frame drawn on,
\* whatever box the detector returned.
C1_ClampedRectangle ==
  \A i \in 1..Len(rects) :
    /\ 0 <= rects[i].pt1[1]
    /\ rects[i].pt1[1] <= rects[i].pt2[1]
    /\ rects[i].pt2[1] <= Width(frame)
    /\ 0 <= rects[i].pt1[2]
    /\ rects[i].pt1[2] <= rects[i].pt2[2]
    /\ rects[i].pt2[2] <= Height(frame)

\* C2: whenever main has ended, release() has been called on the camera handle
\* and the display windows have been closed.
C2_ReleasedOnEveryExit ==
  pc = "done" => released /\ windows_destroyed

\* C3: a failed read prints one warning, runs no detection, drawing or display,
\* leaves the camera open and unreleased and the loop at its next read; at
\* every loop head the number of displays equals the number of successful reads.
C3_FailedReadTransient ==
  /\ n_warn = n_read - n_success
  /\ n_locations <= n_success /\ n_landmarks <= n_success /\ n_display <= n_success
  /\ pc = "read" => n_display = n_success
  /\ (n_read > 0 /\ ~success /\ ~raised) =>
       /\ pc = "read"
       /\ opened /\ ~released /\ ~windows_destroyed
       /\ n_locations = n_success /\ n_landmarks = n_success
       /\ n_display = n_success
       /\ rects = <<>> /\ circles = <<>> /\ legend_calls = <<>>
       /\ output_frame = <<>>

C3_Witness ==
  /\ pc = "read" /\ ~success /\ ~raised
  /\ n_warn = 2 /\ n_success = 1 /\ n_display = 1

\* C4: once the key check has reported a pressed key (any code other than the
\* no-key result), the loop has been left and cleanup is under way.
C4_AnyKeyTerminates ==
  key # NoKey => pc \in CleanupPcs

\* C5 (as stated): at every loop head each iteration run so far, with a
\* successful or a failed read, has performed the key check exactly once.
C5_CheckEveryIteration ==
  pc = "read" => n_waitkey = n_read

FullOrder ==
  <<"read", "flip", "convert", "face_locations", "face_landmarks", "draw_boxes",
    "draw_landmarks", "legend", "imshow", "waitKey">>

IsPrefix(s, t) == Len(s) <= Len(t) /\ \A i \in 1..Len(s) : s[i] = t[i]

\* C5 (amended): the key check is performed exactly once in every iteration
\* whose read succeeded and that ran to its end, only after that iteration's
\* display, and not at all in an iteration whose read failed.
C5_CheckOncePerDisplayedIteration ==
  /\ pc = "read" => n_waitkey = n_success
  /\ n_waitkey <= n_display /\ n_display <= n_waitkey + 1
  /\ pc = "waitKey" => n_display = n_waitkey + 1
  /\ ~success => (\A i \in 1..Len(trace) : trace[i] # "waitKey")
  /\ (trace # <<>> /\ trace[Len(trace)] = "waitKey") => trace = FullOrder

C5_Witness ==
  /\ pc = "read" /\ ~success
  /\ n_warn = 1 /\ n_success = 1 /\ n_waitkey = 1 /\ n_read = 2

\* C6: when the camera cannot be opened, main prints exactly one error line
\* and ends: no read, detection, drawing or display, and no second open.
C6_NoLoopWhenCameraUnavailable ==
  /\ n_error <= 1 /\ n_open <= 1
  /\ (n_error = 1) => ~opened
  /\ (pc \notin {"open", "check"} /\ ~opened) =>
       /\ pc = "done"
       /\ n_error = 1 /\ n_open = 1
       /\ n_read = 0 /\ n_warn = 0
       /\ n_locations = 0 /\ n_landmarks = 0
       /\ n_display = 0 /\ n_waitkey = 0
       /\ rects = <<>> /\ circles = <<>> /\ legend_calls = <<>>

C6_Witness ==
  pc = "done" /\ ~opened /\ n_error = 1 /\ n_open = 1

C8_ComposedLayout ==
  output_frame # <<>> =>
    /\ Height(output_frame) = Height(frame)
    /\ Height(frame) >= 1 /\ Width(frame) >= 1
    /\ \A y \in 1..Height(frame) :
         /\ Len(output_frame[y]) = 200 + Width(frame)
         /\ \A x \in 1..200 : output_frame[y][x] = legend_panel[y][x]
         /\ \A x \in 1..Width(frame) : output_frame[y][x + 200] = frame[y][x]

C8_Witness ==
  /\ pc = "imshow" /\ Width(frame) = MaxW /\ Height(frame) = MaxH
  /\ Len(output_frame[MaxH]) = 200 + MaxW
  /\ output_frame[MaxH][200 + MaxW] = frame[MaxH][MaxW]

TableNames == {FeatureColorsLiteral[i][1] : i \in 1..Len(FeatureColorsLiteral)}

TableColor(name) ==
  FeatureColorsLiteral[CHOOSE i \in 1..Len(FeatureColorsLiteral) :
                         FeatureColorsLiteral[i][1] = name][2]

RECURSIVE GroupPoints(_)
\* <<feature, point>> for every point of one landmarks dict, in order.
GroupPoints(landmarks) ==
  IF landmarks = <<>> THEN <<>>
  ELSE [i \in 1..Len(landmarks[1][2]) |-> <<landmarks[1][1], landmarks[1][2][i]>>]
       \o GroupPoints(Tail(landmarks))

RECURSIVE AllPoints(_)
AllPoints(lst) ==
  IF lst = <<>> THEN <<>> ELSE GroupPoints(lst[1]) \o AllPoints(Tail(lst))

DrawnLandmarks == \E i \in 1..Len(trace) : trace[i] = "draw_landmarks"

\* C9: every landmark point is drawn once, in the table color of its feature
\* when the feature is in FEATURE_COLORS and in gray (200, 200, 200) when it
\* is not; the table is never modified.
C9_LandmarkColors ==
  /\ FEATURE_COLORS = FeatureColorsLiteral
  /\ DrawnLandmarks =>
       LET pts == AllPoints(face_landmarks_list)
       IN /\ Len(circles) = Len(pts)
          /\ \A i \in 1..Len(pts) :
               /\ circles[i].center = pts[i][2]
               /\ circles[i].color =
                    IF pts[i][1] \in TableNames THEN TableColor(pts[i][1])
                    ELSE <<200, 200, 200>>

C9_Witness ==
  /\ DrawnLandmarks
  /\ \E i, j \in 1..Len(circles) :
       /\ circles[i].color = <<255, 0, 0>>
       /\ circles[j].color = <<200, 200, 200>>

\* C10: the steps of an iteration whose read succeeded run in the order read,
\* mirror, convert, face boxes, landmarks, draw boxes, draw landmarks, legend,
\* display, key check, each once; the detector sees the mirrored, converted
\* capture; the next iteration starts only after the key check.
C10_StepOrder ==
  /\ IsPrefix(trace, FullOrder)
  /\ (pc = "read" /\ success) => trace = FullOrder
  /\ pc = "read" =>
       /\ n_locations = n_success /\ n_landmarks = n_success
       /\ n_display = n_success /\ n_waitkey = n_success
  /\ Len(trace) >= 2 => frame = flip(captured)
  /\ Len(trace) >= 4 => rgb_frame = ReverseChannels(flip(captured))
  /\ n_locations >= n_landmarks /\ n_landmarks >= n_display
  /\ n_display >= n_waitkey /\ n_success <= n_waitkey + 1
  /\ (rects # <<>> \/ circles # <<>>) => Len(trace) >= 6

C10_Witness ==
  /\ pc = "read" /\ success /\ trace = FullOrder
  /\ n_success = 2 /\ n_waitkey = 2 /\ key = 0

====
